---- MODULE Spec2Model ----
(***************************************************************************)
(* The courtroom simulation server: one websocket handler (server.py)      *)
(* that sets up a case, starts the session task (SimulationController.run) *)
(* and then routes inbound messages, and the session task itself, which    *)
(* runs the opening statements with one turn per lawyer.                   *)
(*                                                                         *)
(* asyncio is cooperative: code between two awaits is one atomic step.     *)
(* Every action of the session task runs from one await to the next one.   *)
(*                                                                         *)
(* Python strings are modelled as tuples of tokens, so that an f-string is *)
(* a concatenation: f"Heard: {m}" is <<"Heard: ">> \o m.                   *)
(***************************************************************************)
EXTENDS Integers, Sequences, FiniteSets, TLC

\* ------------------------------------------------------------------ bounds
\* How many inbound messages the handler reads in one connection.
MaxInbound == 3

\* ------------------------------------------------------- program constants
\* _build_prompt uses the last 5 memories.
MemWindow == 5

None == <<"None">>

\* ------------------------------------------------------------- case files
\* The case files the handler may find at 'cases/case-001.json': what is on
\* disk, as (exists, parsable, the JSON object's keys and values).
FullPlaintiff == [present |-> TRUE, hasLawyer |-> TRUE, lawyer |-> <<"Ms. Price">>]
FullDefendant == [present |-> TRUE, hasLawyer |-> TRUE, lawyer |-> <<"Mr. Faye">>]
FullCaseData ==
    [title |-> <<"State v. Doe">>, summary |-> <<"summary">>,
     plaintiff |-> FullPlaintiff, defendant |-> FullDefendant]

CaseFileContent(f) ==
    CASE f = "ok" -> [exists |-> TRUE, parsable |-> TRUE, data |-> FullCaseData]
      [] f = "missing" -> [exists |-> FALSE, parsable |-> FALSE, data |-> FullCaseData]
      [] f = "unparsable" -> [exists |-> TRUE, parsable |-> FALSE, data |-> FullCaseData]
      [] f = "no_title" ->
            [exists |-> TRUE, parsable |-> TRUE,
             data |-> [FullCaseData EXCEPT !.title = None]]
      [] f = "no_plaintiff" ->
            [exists |-> TRUE, parsable |-> TRUE,
             data |-> [FullCaseData EXCEPT !.plaintiff =
                          [present |-> FALSE, hasLawyer |-> FALSE, lawyer |-> None]]]
      [] f = "no_defendant_lawyer" ->
            [exists |-> TRUE, parsable |-> TRUE,
             data |-> [FullCaseData EXCEPT !.defendant =
                          [present |-> TRUE, hasLawyer |-> FALSE, lawyer |-> None]]]

CaseFiles == {"ok", "missing", "unparsable", "no_title", "no_plaintiff", "no_defendant_lawyer"}

\* load_case: FileNotFoundError and JSONDecodeError are re-raised as Exception;
\* Case.__init__ reads every field with .get, so an absent key becomes None.
load_case(f) ==
    LET c == CaseFileContent(f) IN
    IF ~c.exists THEN [raised |-> TRUE, case |-> FullCaseData]
    ELSE IF ~c.parsable THEN [raised |-> TRUE, case |-> FullCaseData]
    ELSE [raised |-> FALSE, case |-> c.data]

\* ----------------------------------------------------------------- agents
Agents == {"judge", "prosecutor", "defense_lawyer"}

\* The persona keys create_courtroom_agents defines; there is no "role" key.
PersonaKeys == {"name", "age", "occupation", "personality"}

\* create_courtroom_agents: case.plaintiff['lawyer'] and
\* case.defendant['lawyer'] raise when the party is None or has no lawyer.
create_courtroom_agents(case) ==
    IF ~case.plaintiff.present \/ ~case.plaintiff.hasLawyer
       \/ ~case.defendant.present \/ ~case.defendant.hasLawyer
    THEN [raised |-> TRUE, names |-> [a \in Agents |-> None]]
    ELSE [raised |-> FALSE,
          names |-> [a \in Agents |->
                       CASE a = "judge" -> <<"Judge Reynolds">>
                         [] a = "prosecutor" -> case.plaintiff.lawyer
                         [] a = "defense_lawyer" -> case.defendant.lawyer]]

\* agent.persona.get("role", "unknown")
PersonaRole(keys) == IF "role" \in keys THEN "role-value" ELSE "unknown"

\* ------------------------------------------------------------ llm_engine
\* What the backend call does: it answers, or it raises.
GenOutcomes == {"answers", "raises"}

\* generate without its try/except: the backend's exception propagates.
generate_propagates(prompt, outcome) ==
    IF outcome = "answers"
    THEN [raised |-> FALSE, text |-> <<"response">>]
    ELSE [raised |-> TRUE, text |-> None]

\* OpenAIProvider.generate: any Exception of the backend call is caught and
\* returned as an error string.
generate(prompt, outcome) ==
    IF outcome = "answers"
    THEN [raised |-> FALSE, text |-> <<"response">>]
    ELSE [raised |-> FALSE, text |-> <<"Error generating text with OpenAI: ", "e">>]

\* ------------------------------------------------------------ TinyPerson
\* listen: self.memory.append(f"Heard: {message}")
listen(mem, message) == Append(mem, <<"Heard: ">> \o message)

\* _build_prompt: the persona and the last MemWindow memories.
build_prompt(name, mem) ==
    [persona |-> name,
     recent |-> SubSeq(mem, IF Len(mem) > MemWindow THEN Len(mem) - MemWindow + 1 ELSE 1,
                       Len(mem))]

\* act: a user-controlled agent returns its last memory (memory[-1] raises on
\* an empty memory); any other agent generates a response and appends
\* f"Said: {response}".
act(name, mem, uc, outcome) ==
    IF uc
    THEN IF mem = <<>>
         THEN [raised |-> TRUE, memory |-> mem, result |-> None]
         ELSE [raised |-> FALSE, memory |-> mem, result |-> mem[Len(mem)]]
    ELSE LET g == generate(build_prompt(name, mem), outcome) IN
         IF g.raised
         THEN [raised |-> TRUE, memory |-> mem, result |-> None]
         ELSE [raised |-> FALSE, memory |-> Append(mem, <<"Said: ">> \o g.text),
               result |-> g.text]

\* ------------------------------------------------- SimulationController
\* The phases of the enumeration, in order.
TrialPhase ==
    <<"PRE_TRIAL", "OPENING_STATEMENTS", "WITNESS_EXAMINATION", "CLOSING_STATEMENTS",
      "DELIBERATION", "VERDICT">>

\* The controller is built with the connection's websocket.
WebsocketPresent == TRUE

\* send_event: if self.websocket: await self.websocket.send(json.dumps(e)).
\* send() raises ConnectionClosed on a connection that is closed.
send_event(out, conn, e) ==
    IF ~WebsocketPresent THEN [raised |-> FALSE, out |-> out]
    ELSE IF conn = "closed" THEN [raised |-> TRUE, out |-> out]
    ELSE [raised |-> FALSE, out |-> Append(out, e)]

\* The opening statements with the two turns in the other order.
OpeningStepsSwapped == <<"defense_lawyer", "prosecutor">>

\* The steps of run_opening_statements: who speaks, in order.
OpeningSteps == <<"prosecutor", "defense_lawyer">>

Lawyers == {OpeningSteps[i] : i \in 1..Len(OpeningSteps)}

\* The prompt of each step (prompt_p, prompt_d).
StepPrompt(i, case, names) ==
    IF i = 1
    THEN <<"The trial for '">> \o case.title
           \o <<"' has begun. As the prosecutor, present your opening statement. Summarize the case: ">>
           \o case.summary \o <<".">>
    ELSE <<"Thank you, ">> \o names["prosecutor"] \o <<". Now, ">>
           \o names["defense_lawyer"] \o <<", you may present your opening statement.">>

TrialStartsEvent(case) == [event |-> "trial_starts", case_title |-> case.title]
PhaseStartsEvent == [event |-> "phase_starts", phase |-> "Opening Statements"]
RequestEvent == [event |-> "request_user_input", role |-> PersonaRole(PersonaKeys)]
SpeaksEvent(name, message) ==
    [event |-> "agent_speaks", agent_name |-> name, message |-> message]
TrialFinishedEvent == [event |-> "trial_finished"]

\* ---------------------------------------------------------------- server
\* Inbound messages: what json.loads makes of the text, as the keys present
\* and their values; parsable = FALSE is a text that is not JSON.
SetRoleMsg(r) ==
    [parsable |-> TRUE, keys |-> {"event", "role"}, event |-> "set_role", role |-> r,
     message |-> None]
UserInputMsg(m) ==
    [parsable |-> TRUE, keys |-> {"event", "message"}, event |-> "user_input",
     role |-> "", message |-> m]
NotJson ==
    [parsable |-> FALSE, keys |-> {}, event |-> "", role |-> "", message |-> None]
NoEvent ==
    [parsable |-> TRUE, keys |-> {"role"}, event |-> "", role |-> "prosecutor",
     message |-> None]
SetRoleNoRole ==
    [parsable |-> TRUE, keys |-> {"event"}, event |-> "set_role", role |-> "",
     message |-> None]
UserInputNoMessage ==
    [parsable |-> TRUE, keys |-> {"event"}, event |-> "user_input", role |-> "",
     message |-> None]
UnknownEvent ==
    [parsable |-> TRUE, keys |-> {"event"}, event |-> "ping", role |-> "",
     message |-> None]

RoleValues == {"prosecutor", "defense", "spectator", "judge"}
UserTexts == {<<"m1">>, <<"m2">>}

WellFormed == {SetRoleMsg(r) : r \in RoleValues} \cup {UserInputMsg(m) : m \in UserTexts}
Malformed == {NotJson, NoEvent, SetRoleNoRole, UserInputNoMessage, UnknownEvent}
Inbound == WellFormed \cup Malformed

\* set_role that also serves the judge: role "judge" sets the judge's flag.
set_role_judge(flags, role) ==
    IF role = "prosecutor"
    THEN [flags EXCEPT !["prosecutor"] = TRUE, !["defense_lawyer"] = FALSE]
    ELSE IF role = "defense"
    THEN [flags EXCEPT !["defense_lawyer"] = TRUE, !["prosecutor"] = FALSE]
    ELSE IF role = "judge"
    THEN [flags EXCEPT !["judge"] = TRUE, !["prosecutor"] = FALSE,
                       !["defense_lawyer"] = FALSE]
    ELSE [flags EXCEPT !["prosecutor"] = FALSE, !["defense_lawyer"] = FALSE]

\* set_role that flips the named lawyer's flag.
set_role_toggle(flags, role) ==
    IF role = "prosecutor"
    THEN [flags EXCEPT !["prosecutor"] = ~@, !["defense_lawyer"] = FALSE]
    ELSE IF role = "defense"
    THEN [flags EXCEPT !["defense_lawyer"] = ~@, !["prosecutor"] = FALSE]
    ELSE [flags EXCEPT !["prosecutor"] = FALSE, !["defense_lawyer"] = FALSE]

\* set_role that sets the named lawyer's flag and never clears one.
set_role_only_sets(flags, role) ==
    IF role = "prosecutor"
    THEN [flags EXCEPT !["prosecutor"] = TRUE]
    ELSE IF role = "defense"
    THEN [flags EXCEPT !["defense_lawyer"] = TRUE]
    ELSE flags

\* set_role without the lines that clear the other lawyer's flag.
set_role_keeps_other(flags, role) ==
    IF role = "prosecutor"
    THEN [flags EXCEPT !["prosecutor"] = TRUE]
    ELSE IF role = "defense"
    THEN [flags EXCEPT !["defense_lawyer"] = TRUE]
    ELSE [flags EXCEPT !["prosecutor"] = FALSE, !["defense_lawyer"] = FALSE]

\* The set_role branch of the handler.
set_role(flags, role) ==
    IF role = "prosecutor"
    THEN [flags EXCEPT !["prosecutor"] = TRUE, !["defense_lawyer"] = FALSE]
    ELSE IF role = "defense"
    THEN [flags EXCEPT !["defense_lawyer"] = TRUE, !["prosecutor"] = FALSE]
    ELSE [flags EXCEPT !["prosecutor"] = FALSE, !["defense_lawyer"] = FALSE]

\* The body of the handler's loop for one message: json.loads, data['event'],
\* data['role'], data['message'] each raise when the text or the key is not
\* there; an event that is neither set_role nor user_input does nothing.
handle_message(msg, flags, q) ==
    IF ~msg.parsable THEN [raised |-> TRUE, flags |-> flags, queue |-> q]
    ELSE IF "event" \notin msg.keys THEN [raised |-> TRUE, flags |-> flags, queue |-> q]
    ELSE IF msg.event = "set_role"
    THEN IF "role" \notin msg.keys
         THEN [raised |-> TRUE, flags |-> flags, queue |-> q]
         ELSE [raised |-> FALSE, flags |-> set_role(flags, msg.role), queue |-> q]
    ELSE IF msg.event = "user_input"
    THEN IF "message" \notin msg.keys
         THEN [raised |-> TRUE, flags |-> flags, queue |-> q]
         ELSE [raised |-> FALSE, flags |-> flags, queue |-> Append(q, msg.message)]
    ELSE [raised |-> FALSE, flags |-> flags, queue |-> q]

\* A handler whose finally clause does not cancel the task.
task_cancel_missing(pc) == pc

\* simulation_task.cancel(): a task that is done stays as it is; any other
\* task gets CancelledError at the await it is suspended in.
task_cancel(pc) == IF pc \in {"finished", "failed", "none"} THEN pc ELSE "cancelled"

\* ------------------------------------------------------------------ state
VARIABLES
    caseFile,     \* which case file is on disk
    case,         \* the Case the handler loaded
    handlerPc,    \* "connected", "reading", "done", "crashed", "setup_failed"
    connection,   \* "open" or "closed": the websocket, as send() sees it
    taskPc,       \* where the session task is suspended, or how it ended
    taskExc,      \* the exception that ended the session task, "" for none
    step,         \* the step of the opening statements in progress, 0 before
    phase,        \* SimulationController.phase
    names,        \* persona['name'] of every agent
    isUC,         \* is_user_controlled of every agent
    memory,       \* memory of every agent
    queue,        \* user_input_queue
    outbound,     \* the events sent on the websocket, in order
    \* observations, written and never read by the program's actions
    received,     \* the inbound messages the handler has read, in order
    queueTag,     \* for each queued text: did it arrive while a turn awaited input
    source,       \* for each lawyer: where its utterance came from
    spoke,        \* for each lawyer: the message of its agent_speaks event
    expect,       \* for each lawyer: the text sent for it after its set_role
    discAt,       \* the task's place and the stream's length at the disconnect
    cancelAt,     \* the place the task was cancelled at, "" for none
    turnMem,      \* the speaker's memory when the turn in progress began
    genFailed,    \* for each agent: did its backend call fail
    turnMode,     \* for each lawyer: its flag when its turn began
    ucAtTake,     \* for each lawyer: its flag when it took a text from the queue
    taken         \* the texts taken from the queue, in order, with their takers

vars ==
    <<caseFile, case, handlerPc, connection, taskPc, taskExc, step, phase, names, isUC,
      memory, queue, outbound, received, queueTag, source, spoke, expect, discAt,
      cancelAt, turnMem, genFailed, turnMode, ucAtTake, taken>>

NoMsg == <<>>
NoExpect == [state |-> "none", text |-> NoMsg]

\* The places where a turn is waiting for the human's text.
AwaitPcs == {"sent_request", "await_input"}
\* The places inside a turn.
TurnPcs == {"sent_request", "await_input", "sent_speaks"}

Init ==
    /\ caseFile \in CaseFiles
    /\ case = FullCaseData
    /\ handlerPc = "connected"
    /\ connection = "open"
    /\ taskPc = "none"
    /\ taskExc = ""
    /\ step = 0
    /\ phase = "PRE_TRIAL"
    /\ names = [a \in Agents |-> None]
    /\ isUC = [a \in Agents |-> FALSE]
    /\ memory = [a \in Agents |-> <<>>]
    /\ queue = <<>>
    /\ outbound = <<>>
    /\ received = <<>>
    /\ queueTag = <<>>
    /\ source = [a \in Lawyers |-> "none"]
    /\ spoke = [a \in Lawyers |-> NoMsg]
    /\ expect = [a \in Lawyers |-> NoExpect]
    /\ discAt = [set |-> FALSE, pc |-> "", nOut |-> 0]
    /\ cancelAt = ""
    /\ turnMem = <<>>
    /\ genFailed = [a \in Agents |-> FALSE]
    /\ turnMode = [a \in Lawyers |-> "none"]
    /\ ucAtTake = [a \in Lawyers |-> "none"]
    /\ taken = <<>>

\* ---------------------------------------------------------------- handler
\* handler, lines 12-21: load the case, create the agents, the queue and the
\* controller (phase = PRE_TRIAL), and create the session task.
Setup ==
    /\ handlerPc = "connected"
    /\ LET l == load_case(caseFile)
           c == create_courtroom_agents(l.case) IN
       IF l.raised \/ c.raised
       THEN /\ handlerPc' = "setup_failed"
            /\ UNCHANGED <<case, names, taskPc>>
       ELSE /\ handlerPc' = "reading"
            /\ case' = l.case
            /\ names' = c.names
            /\ taskPc' = "created"
    /\ UNCHANGED <<caseFile, connection, taskExc, step, phase, isUC, memory, queue,
                   outbound, received, queueTag, source, spoke, expect, discAt, cancelAt,
                   turnMem, genFailed, turnMode,
                   ucAtTake, taken>>

\* The agent a set_role value puts under the user's control, if any.
RoleAgent(role) ==
    IF role = "prosecutor" THEN {"prosecutor"}
    ELSE IF role = "defense" THEN {"defense_lawyer"}
    ELSE {}

IsSetRole(msg) == msg.parsable /\ msg.keys = {"event", "role"} /\ msg.event = "set_role"
IsUserInput(msg) ==
    msg.parsable /\ msg.keys = {"event", "message"} /\ msg.event = "user_input"

\* Observation: the text a lawyer is owed. A set_role for the lawyer arms it;
\* the first user_input read after that, while the lawyer is still
\* user-controlled, has not spoken and no other lawyer's turn awaits input,
\* is the text sent for it. A set_role for anything else disarms it.
ExpectAfter(msg, a) ==
    IF IsSetRole(msg)
    THEN IF a \in RoleAgent(msg.role) /\ spoke[a] = NoMsg
         THEN [state |-> "armed", text |-> NoMsg]
         ELSE NoExpect
    ELSE IF IsUserInput(msg) /\ expect[a].state = "armed" /\ isUC[a] /\ spoke[a] = NoMsg
            /\ ~(taskPc \in AwaitPcs /\ OpeningSteps[step] # a)
    THEN [state |-> "sent", text |-> msg.message]
    ELSE expect[a]

\* handler, lines 24-47: one message of the loop. An exception leaves the
\* loop through the finally clause, which cancels the session task.
\* The task created at line 21 is first in the event loop's ready queue when
\* the handler first suspends in its loop, so the task's first step comes
\* before anything the loop reads.
Receive(msg) ==
    /\ handlerPc = "reading"
    /\ taskPc # "created"
    /\ Len(received) < MaxInbound
    /\ LET r == handle_message(msg, isUC, queue) IN
       /\ isUC' = r.flags
       /\ queue' = r.queue
       /\ queueTag' = IF Len(r.queue) > Len(queue)
                      THEN Append(queueTag, taskPc \in AwaitPcs)
                      ELSE queueTag
       /\ IF r.raised
          THEN /\ handlerPc' = "crashed"
               /\ taskPc' = task_cancel(taskPc)
               /\ cancelAt' = IF task_cancel(taskPc) # taskPc THEN taskPc ELSE cancelAt
          ELSE UNCHANGED <<handlerPc, taskPc, cancelAt>>
    /\ received' = Append(received, msg)
    /\ expect' = [a \in Lawyers |-> ExpectAfter(msg, a)]
    /\ UNCHANGED <<caseFile, case, connection, taskExc, step, phase, names, memory,
                   outbound, source, spoke, discAt, turnMem, genFailed, turnMode,
                   ucAtTake, taken>>

\* The client goes away: the connection closes under the handler's loop.
ClientDisconnect ==
    /\ handlerPc = "reading"
    /\ taskPc # "created"
    /\ connection = "open"
    /\ connection' = "closed"
    /\ discAt' = [set |-> TRUE, pc |-> taskPc, nOut |-> Len(outbound)]
    /\ UNCHANGED <<caseFile, case, handlerPc, taskPc, taskExc, step, phase, names, isUC,
                   memory, queue, outbound, received, queueTag, source, spoke, expect,
                   cancelAt, turnMem, genFailed, turnMode,
                   ucAtTake, taken>>

\* handler, lines 44-47: the loop ends on the closed connection and the
\* finally clause cancels the session task.
HandlerClosed ==
    /\ handlerPc = "reading"
    /\ connection = "closed"
    /\ handlerPc' = "done"
    /\ taskPc' = task_cancel(taskPc)
    /\ cancelAt' = IF task_cancel(taskPc) # taskPc THEN taskPc ELSE cancelAt
    /\ UNCHANGED <<caseFile, case, connection, taskExc, step, phase, names, isUC, memory,
                   queue, outbound, received, queueTag, source, spoke, expect, discAt,
                   turnMem, genFailed, turnMode,
                   ucAtTake, taken>>

\* ----------------------------------------------------------- session task
\* await self.send_event(e), then on to the place `next`: an exception of
\* send() ends the task (run catches nothing).
Emit(e, next) ==
    LET s == send_event(outbound, connection, e) IN
    /\ outbound' = s.out
    /\ IF s.raised
       THEN taskPc' = "failed" /\ taskExc' = "ConnectionClosed"
       ELSE taskPc' = next /\ taskExc' = taskExc

\* Whether Emit(e, ..) puts e on the stream.
Emitted(e) == Len(send_event(outbound, connection, e).out) > Len(outbound)

\* run, line 38: the task's first step.
TaskStart ==
    /\ taskPc = "created"
    /\ Emit(TrialStartsEvent(case), "sent_trial_starts")
    /\ UNCHANGED <<caseFile, case, handlerPc, connection, step, phase, names, isUC,
                   memory, queue, received, queueTag, source, spoke, expect, discAt,
                   cancelAt, turnMem, genFailed, turnMode,
                   ucAtTake, taken>>

\* run, lines 39-40, and run_opening_statements, line 45.
EnterOpening ==
    /\ taskPc = "sent_trial_starts"
    /\ phase' = TrialPhase[2]
    /\ Emit(PhaseStartsEvent, "sent_phase_starts")
    /\ UNCHANGED <<caseFile, case, handlerPc, connection, step, names, isUC, memory,
                   queue, received, queueTag, source, spoke, expect, discAt, cancelAt,
                   turnMem, genFailed, turnMode,
                   ucAtTake, taken>>

\* A dispatch that sends every turn to act, whatever the flag.
TurnIsHumanNever(flags, a) == FALSE

\* A dispatch that treats every turn as a human turn.
TurnIsHumanAlways(flags, a) == TRUE

\* get_agent_action, line 29: the read of the speaker's flag that chooses
\* how the turn is produced.
TurnIsHuman(flags, a) == flags[a]

\* run_opening_statements, lines 47-51 and 55-56, into get_agent_action,
\* lines 28-30 and 35: the speaker hears the prompt; a user-controlled
\* speaker's turn sends request_user_input, any other speaker acts and its
\* agent_speaks event is sent (lines 52 and 57).
BeginTurn ==
    /\ \/ taskPc = "sent_phase_starts"
       \/ taskPc = "sleep" /\ step < Len(OpeningSteps)
    /\ step' = step + 1
    /\ LET a == OpeningSteps[step + 1]
           heard == listen(memory[a], StepPrompt(step + 1, case, names)) IN
       /\ turnMem' = memory[a]
       /\ turnMode' = [turnMode EXCEPT ![a] = IF isUC[a] THEN "human" ELSE "autonomous"]
       /\ IF TurnIsHuman(isUC, a)
          THEN /\ memory' = [memory EXCEPT ![a] = heard]
               /\ Emit(RequestEvent, "sent_request")
               /\ UNCHANGED <<source, spoke, genFailed>>
          ELSE \E o \in GenOutcomes :
                 LET r == act(names[a], heard, isUC[a], o) IN
                 /\ memory' = [memory EXCEPT ![a] = r.memory]
                 /\ genFailed' = [genFailed EXCEPT ![a] = (o = "raises")]
                 /\ IF r.raised
                    THEN /\ taskPc' = "failed"
                         /\ taskExc' = "backend"
                         /\ UNCHANGED <<outbound, source, spoke>>
                    ELSE /\ Emit(SpeaksEvent(names[a], r.result), "sent_speaks")
                         /\ source' = [source EXCEPT ![a] = "generated"]
                         /\ spoke' = IF Emitted(SpeaksEvent(names[a], r.result))
                                     THEN [spoke EXCEPT ![a] = r.result]
                                     ELSE spoke
    /\ UNCHANGED <<caseFile, case, handlerPc, connection, phase, names, isUC, queue,
                   received, queueTag, expect, discAt, cancelAt, ucAtTake, taken>>

\* asyncio.Queue.get returns once the queue holds an item.
get_ready(q) == q # <<>>

\* A get that takes the newest item.
queue_get_lifo(q) == [item |-> q[Len(q)], rest |-> SubSeq(q, 1, Len(q) - 1)]

\* asyncio.Queue.get on a queue that holds an item: the oldest one.
queue_get(q) == [item |-> Head(q), rest |-> Tail(q)]

\* get_agent_action, lines 31-33, and the agent_speaks event of the turn:
\* the text taken from the queue is appended as said and sent.
Consume ==
    LET a == OpeningSteps[step]
        g == queue_get(queue) IN
    /\ queue' = g.rest
    /\ queueTag' = Tail(queueTag)
    /\ memory' = [memory EXCEPT ![a] = Append(memory[a], <<"Said: ">> \o g.item)]
    /\ Emit(SpeaksEvent(names[a], g.item), "sent_speaks")
    /\ source' = [source EXCEPT ![a] = IF Head(queueTag) THEN "awaited" ELSE "unawaited"]
    /\ spoke' = IF Emitted(SpeaksEvent(names[a], g.item))
                THEN [spoke EXCEPT ![a] = g.item]
                ELSE spoke
    /\ ucAtTake' = [ucAtTake EXCEPT ![a] = IF isUC[a] THEN "set" ELSE "cleared"]
    /\ taken' = Append(taken, [agent |-> a, text |-> g.item])

\* get_agent_action, line 31, reached from the send of request_user_input:
\* get() returns at once when the queue holds a text and suspends otherwise.
AfterRequest ==
    /\ taskPc = "sent_request"
    /\ IF ~get_ready(queue)
       THEN /\ taskPc' = "await_input"
            /\ UNCHANGED <<taskExc, memory, queue, outbound, queueTag, source, spoke,
                           ucAtTake, taken>>
       ELSE Consume
    /\ UNCHANGED <<caseFile, case, handlerPc, connection, step, phase, names, isUC,
                   received, expect, discAt, cancelAt, turnMem, genFailed, turnMode>>

\* get_agent_action, line 31: get() resumes once the handler has put a text.
InputArrives ==
    /\ taskPc = "await_input"
    /\ get_ready(queue)
    /\ Consume
    /\ UNCHANGED <<caseFile, case, handlerPc, connection, step, phase, names, isUC,
                   received, expect, discAt, cancelAt, turnMem, genFailed, turnMode>>

\* run_opening_statements, lines 53 and 58: await asyncio.sleep(1).
Sleep ==
    /\ taskPc = "sent_speaks"
    /\ taskPc' = "sleep"
    /\ UNCHANGED <<caseFile, case, handlerPc, connection, taskExc, step, phase, names,
                   isUC, memory, queue, outbound, received, queueTag, source, spoke,
                   expect, discAt, cancelAt, turnMem, genFailed, turnMode,
                   ucAtTake, taken>>

\* run, line 41, after the last step's sleep.
EndTrial ==
    /\ taskPc = "sleep"
    /\ step = Len(OpeningSteps)
    /\ Emit(TrialFinishedEvent, "sent_trial_finished")
    /\ UNCHANGED <<caseFile, case, handlerPc, connection, step, phase, names, isUC,
                   memory, queue, received, queueTag, source, spoke, expect, discAt,
                   cancelAt, turnMem, genFailed, turnMode,
                   ucAtTake, taken>>

\* run, line 42: the task returns.
TaskReturn ==
    /\ taskPc = "sent_trial_finished"
    /\ taskPc' = "finished"
    /\ UNCHANGED <<caseFile, case, handlerPc, connection, taskExc, step, phase, names,
                   isUC, memory, queue, outbound, received, queueTag, source, spoke,
                   expect, discAt, cancelAt, turnMem, genFailed, turnMode,
                   ucAtTake, taken>>

Next ==
    \/ Setup
    \/ \E msg \in Inbound : Receive(msg)
    \/ ClientDisconnect
    \/ HandlerClosed
    \/ TaskStart
    \/ EnterOpening
    \/ BeginTurn
    \/ AfterRequest
    \/ InputArrives
    \/ Sleep
    \/ EndTrial
    \/ TaskReturn

Spec == Init /\ [][Next]_vars

\* The steps of the session task.
TaskStep ==
    \/ TaskStart
    \/ EnterOpening
    \/ BeginTurn
    \/ AfterRequest
    \/ InputArrives
    \/ Sleep
    \/ EndTrial
    \/ TaskReturn

\* The event loop runs every coroutine that is ready: the session task, the
\* handler's setup, and the handler's exit from its loop once the connection
\* is closed. What the client sends, and whether it goes away, is the
\* client's choice and has no fairness.
FairSpec ==
    /\ Spec
    /\ WF_vars(TaskStep)
    /\ WF_vars(Setup)
    /\ WF_vars(HandlerClosed)

\* ================================================================= claims
EventsOf(kind) == SelectSeq(outbound, LAMBDA e : e.event = kind)

\* The title each phase of the enumeration is announced with.
PhaseTitle(p) ==
    CASE p = "PRE_TRIAL" -> "Pre-Trial"
      [] p = "OPENING_STATEMENTS" -> "Opening Statements"
      [] p = "WITNESS_EXAMINATION" -> "Witness Examination"
      [] p = "CLOSING_STATEMENTS" -> "Closing Statements"
      [] p = "DELIBERATION" -> "Deliberation"
      [] p = "VERDICT" -> "Verdict"

\* C1: once trial_finished is on the stream, the phase_starts events on it
\* are the six phases of the enumeration, in order, each once.
C1_PhaseStartsFollowEnumeration ==
    EventsOf("trial_finished") # <<>> =>
        [i \in 1..Len(EventsOf("phase_starts")) |-> EventsOf("phase_starts")[i].phase]
            = [i \in 1..Len(TrialPhase) |-> PhaseTitle(TrialPhase[i])]

\* The opening statements have run to their end.
OpeningEnded ==
    \/ taskPc = "sleep" /\ step = 2
    \/ taskPc \in {"sent_trial_finished", "finished"}
    \/ EventsOf("trial_finished") # <<>>

\* The places of the events of one kind on the stream.
PlacesOf(kind) == {i \in 1..Len(outbound) : outbound[i].event = kind}

\* C2: the agent_speaks events on the stream are at most two, the first is
\* the prosecutor's and the second the defense lawyer's, all of them come
\* after phase_starts and before trial_finished, and they are exactly two once
\* the opening statements have run to their end.
C2_OpeningSpeakersInOrder ==
    LET sp == EventsOf("agent_speaks") IN
    /\ Len(sp) <= 2
    /\ Len(sp) >= 1 => sp[1].agent_name = names["prosecutor"]
    /\ Len(sp) >= 2 => sp[2].agent_name = names["defense_lawyer"]
    /\ \A i \in PlacesOf("agent_speaks") :
         /\ \E k \in PlacesOf("phase_starts") : k < i
         /\ \A t \in PlacesOf("trial_finished") : i < t
    /\ OpeningEnded => Len(sp) = 2

\* C2's case: the trial has finished with a human turn and a generated turn,
\* and inbound messages were read on the way.
C2_Witness ==
    /\ taskPc = "finished"
    /\ source["prosecutor"] = "awaited"
    /\ source["defense_lawyer"] = "generated"
    /\ Len(received) = MaxInbound

\* C3: a lawyer that was set user-controlled and then sent a text speaks
\* exactly that text in its next agent_speaks event.
C3_NextSpeechCarriesSentText ==
    \A a \in Lawyers :
        (expect[a].state = "sent" /\ spoke[a] # NoMsg) => spoke[a] = expect[a].text

\* C4: a user_input read while no turn awaited input is never the utterance
\* of a turn.
C4_UnawaitedInputNeverSpoken ==
    \A a \in Lawyers : source[a] # "unawaited"

\* The set_role messages read so far.
SetRolesRead == SelectSeq(received, IsSetRole)

\* C5: at most one agent is user-controlled, and the flags are those of the
\* last set_role read: the prosecutor alone after "prosecutor", the defense
\* lawyer alone after "defense", nobody after any other role (or before the
\* first set_role).
C5_AtMostOneUserControlled ==
    /\ Cardinality({a \in Agents : isUC[a]}) <= 1
    /\ LET last == IF SetRolesRead = <<>> THEN "spectator"
                   ELSE SetRolesRead[Len(SetRolesRead)].role IN
       /\ isUC["prosecutor"] <=> last = "prosecutor"
       /\ isUC["defense_lawyer"] <=> last = "defense"
       /\ ~isUC["judge"]

\* C5's case: the prosecutor was assigned, then the defense, while the task runs.
C5_Witness ==
    /\ Len(SetRolesRead) >= 2
    /\ SetRolesRead[1].role = "prosecutor"
    /\ SetRolesRead[2].role = "defense"
    /\ Len(received) = 2
    /\ isUC["defense_lawyer"] /\ ~isUC["prosecutor"]
    /\ taskPc = "sent_phase_starts"

\* C6: after a disconnect that came while a turn awaited input, nothing more
\* is sent, trial_finished is not on the stream, the task does not finish,
\* and once the handler has left its loop the task has ended.
C6_DisconnectWhileAwaiting ==
    (discAt.set /\ discAt.pc \in AwaitPcs) =>
        /\ Len(outbound) = discAt.nOut
        /\ EventsOf("trial_finished") = <<>>
        /\ taskPc \notin {"finished", "sent_trial_finished"}
        /\ handlerPc # "reading" => taskPc \in {"cancelled", "failed"}

\* C6's case: the disconnect came in the wait and the task was cancelled there.
C6_Witness ==
    /\ discAt.set /\ discAt.pc = "await_input"
    /\ handlerPc = "done"
    /\ taskPc = "cancelled"
    /\ cancelAt = "await_input"

\* C7: a turn cancelled inside by the client's disconnect (in the wait for
\* the human's text or in the send of its agent_speaks event) leaves its
\* speaker's memory as it was when the turn began.
C7_CancelledTurnLeavesHistory ==
    (handlerPc = "done" /\ cancelAt \in TurnPcs) => memory[OpeningSteps[step]] = turnMem

\* C8: reading a malformed message changes no flag and no queue content and
\* neither cancels the task nor ends the handler's loop.
C8_MalformedDiscarded ==
    [][\A msg \in Malformed :
         Receive(msg) =>
            /\ isUC' = isUC
            /\ queue' = queue
            /\ taskPc' = taskPc
            /\ handlerPc' = handlerPc]_vars

\* A message that starts as the provider's error string does.
IsErrorText(m) == m # <<>> /\ m[1] = "Error generating text with OpenAI: "

\* The task is past the agent_speaks event of lawyer a's turn.
PastSpeech(a) ==
    /\ taskPc \in {"sent_speaks", "sleep", "sent_trial_finished", "finished"}
    /\ \E i \in 1..step : OpeningSteps[i] = a

\* C9: a backend failure never ends the task; the turn it happened in has
\* at most one agent_speaks event, exactly one once the task is past it, with
\* the error string as its message; and the task can take its next step.
C9_BackendFailureIsOneErrorTurn ==
    /\ taskExc # "backend"
    /\ \A a \in Lawyers :
         genFailed[a] =>
            LET sp == SelectSeq(outbound, LAMBDA e :
                          e.event = "agent_speaks" /\ e.agent_name = names[a]) IN
            /\ Len(sp) <= 1
            /\ \A i \in 1..Len(sp) : IsErrorText(sp[i].message)
            /\ PastSpeech(a) => Len(sp) = 1
            /\ taskPc \in {"sent_speaks", "sleep", "sent_trial_finished"}
                  => ENABLED (Sleep \/ BeginTurn \/ EndTrial \/ TaskReturn)

\* C9's case: the prosecutor's backend call failed, the defense lawyer spoke
\* after it and the trial finished.
C9_Witness ==
    /\ genFailed["prosecutor"]
    /\ spoke["defense_lawyer"] # NoMsg
    /\ taskPc = "finished"

\* C10: no exception of send() ends the session task.
C10_EmissionNeverEndsTask == taskExc # "ConnectionClosed"

\* No set_role read so far names a lawyer: both lawyers have stayed autonomous.
StayedAutonomous ==
    \A i \in 1..Len(received) :
        received[i] \notin {SetRoleMsg("prosecutor"), SetRoleMsg("defense")}

\* An outbound event without its free text: its kind, and whatever names its
\* subject.
Outline(e) ==
    CASE e.event = "trial_starts" -> <<"trial_starts", e.case_title>>
      [] e.event = "phase_starts" -> <<"phase_starts", e.phase>>
      [] e.event = "agent_speaks" -> <<"agent_speaks", e.agent_name>>
      [] e.event = "request_user_input" -> <<"request_user_input", e.role>>
      [] OTHER -> <<e.event>>

\* The outline of the trace of an autonomous session.
AutonomousTrace ==
    << <<"trial_starts", case.title>>,
       <<"phase_starts", "Opening Statements">>,
       <<"agent_speaks", names["prosecutor"]>>,
       <<"agent_speaks", names["defense_lawyer"]>>,
       <<"trial_finished">> >>

\* C11: while both lawyers have stayed autonomous and the client is
\* connected, the stream is a prefix of trial_starts, phase_starts(Opening
\* Statements), agent_speaks(prosecutor), agent_speaks(defense lawyer),
\* trial_finished, with no other event anywhere, and it is the whole of that
\* trace once the task has sent trial_finished.
C11_AutonomousTraceExact ==
    (StayedAutonomous /\ connection = "open") =>
        /\ Len(outbound) <= Len(AutonomousTrace)
        /\ [i \in 1..Len(outbound) |-> Outline(outbound[i])]
               = SubSeq(AutonomousTrace, 1, Len(outbound))
        /\ taskPc \in {"sent_trial_finished", "finished"}
               => Len(outbound) = Len(AutonomousTrace)

\* C11's case: an autonomous session has run to its end with the client
\* connected, while inbound messages that leave the modes alone were read.
C11_Witness ==
    /\ StayedAutonomous
    /\ connection = "open"
    /\ taskPc = "finished"
    /\ \A a \in Lawyers : source[a] = "generated"
    /\ Len(received) = MaxInbound

\* The role, in the client's vocabulary, of a lawyer.
ClientRole(a) == IF a = "prosecutor" THEN "prosecutor" ELSE "defense"

\* C12: while a human turn is suspended, the last record of the speaker's
\* history is the turn's prompt as heard, the last event on the stream is a
\* request_user_input, and that event's role is the speaker's role
\* (prosecutor or defense).
C12_RequestNamesRole ==
    taskPc \in AwaitPcs =>
        LET a == OpeningSteps[step] IN
        /\ memory[a] = listen(turnMem, StepPrompt(step, case, names))
        /\ outbound # <<>>
        /\ outbound[Len(outbound)].event = "request_user_input"
        /\ outbound[Len(outbound)].role = ClientRole(a)

\* What holds of C12 in the code: the prompt is heard and a request_user_input
\* event is the last on the stream while the turn is suspended.
C12_HeardAndRequested ==
    taskPc \in AwaitPcs =>
        LET a == OpeningSteps[step] IN
        /\ memory[a] = listen(turnMem, StepPrompt(step, case, names))
        /\ outbound # <<>>
        /\ outbound[Len(outbound)].event = "request_user_input"

\* C13: a user_input text is taken from the queue only by a lawyer whose
\* user-controlled flag is set at the moment it takes the text, never by one
\* whose flag is cleared at that moment (stated here for the texts read while
\* the turn was waiting for one).
C13_TextOnlyToModeHolder ==
    \A a \in Lawyers : source[a] = "awaited" => ucAtTake[a] = "set"

\* What the code keeps instead: a text is taken only by the lawyer whose turn
\* is running, and that turn began with the lawyer's flag set.
TextOnlyToHumanTurn ==
    /\ \A a \in Lawyers : ucAtTake[a] # "none" => turnMode[a] = "human"
    /\ \A i \in 1..Len(taken) : turnMode[taken[i].agent] = "human"

\* C14: while a human turn is suspended, (1) a set_role read by the handler
\* changes the flags at once and leaves the task's position, the histories,
\* the queue and the stream as they are; (2) the turn, when it goes on,
\* takes the oldest queued text, records it as said by the turn's speaker
\* and emits it as that speaker's utterance, whatever the speaker's flag
\* is by then; (3) a turn that starts is a human turn exactly when the
\* speaker's flag is set at that moment.
C14_SetRoleDuringWait ==
    [][ /\ (taskPc \in AwaitPcs /\ received' # received
                /\ IsSetRole(received'[Len(received')])) =>
            /\ \A a \in Lawyers :
                   isUC'[a] = (a \in RoleAgent(received'[Len(received')].role))
            /\ UNCHANGED <<taskPc, step, memory, queue, outbound, turnMode, taken>>
        /\ (taskPc \in AwaitPcs /\ taskPc' \notin AwaitPcs \cup {"cancelled", "failed"}) =>
            LET a == OpeningSteps[step] IN
            /\ queue # <<>>
            /\ queue' = Tail(queue)
            /\ memory' = [memory EXCEPT ![a] = Append(@, <<"Said: ">> \o Head(queue))]
            /\ outbound' = Append(outbound, SpeaksEvent(names[a], Head(queue)))
            /\ step' = step
        /\ step' # step =>
            LET a == OpeningSteps[step'] IN
            /\ isUC[a] => taskPc' \in AwaitPcs \cup {"failed"} /\ source' = source
            /\ ~isUC[a] => taskPc' \notin AwaitPcs /\ taken' = taken
      ]_vars

\* C14's case: the prosecutor's human turn was completed with a text taken
\* after its flag had been cleared by a set_role for the defense, and the
\* defense lawyer's turn then started as a human turn.
C14_Witness ==
    /\ ucAtTake["prosecutor"] = "cleared"
    /\ source["prosecutor"] = "awaited"
    /\ spoke["prosecutor"] # NoMsg
    /\ turnMode["defense_lawyer"] = "human"

\* C15: with a case file that is missing, unparsable, or lacks a field the
\* core reads (title, plaintiff.lawyer, defendant.lawyer), the session task
\* is never created and the stream stays empty.
C15_BadCaseNeverStarts ==
    caseFile # "ok" => taskPc = "none" /\ outbound = <<>>

\* What holds of C15 in the code: a missing or unparsable file, or a party
\* without a lawyer, stops the setup before the task is created.
BadPartiesNeverStart ==
    caseFile \in {"missing", "unparsable", "no_plaintiff", "no_defendant_lawyer"}
        => taskPc = "none" /\ outbound = <<>> /\ handlerPc \in {"connected", "setup_failed"}

\* C16: a set_role read right after the same set_role (no other message
\* between them) changes no flag, no history and not the queue, whatever
\* the role it names and whatever the task did in between.
C16_SetRoleIdempotent ==
    [][ (/\ received # <<>>
         /\ received' = Append(received, received[Len(received)])
         /\ IsSetRole(received[Len(received)]))
            => UNCHANGED <<isUC, memory, queue, taskPc, outbound>>
      ]_vars

\* C16's case: the same set_role for a lawyer was read twice in a row while
\* a human turn is suspended.
C16_Witness ==
    /\ Len(received) >= 2
    /\ received[Len(received)] = received[Len(received) - 1]
    /\ received[Len(received)] \in {SetRoleMsg("prosecutor"), SetRoleMsg("defense")}
    /\ \E a \in Lawyers : isUC[a]
    /\ taskPc \in AwaitPcs

C18_Ownership ==
    [][ /\ memory' # memory =>
            /\ received' = received
            /\ handlerPc' = handlerPc
            /\ step' \in 1..Len(OpeningSteps)
            /\ \A b \in Agents \ {OpeningSteps[step']} : memory'[b] = memory[b]
        /\ isUC' # isUC =>
            /\ received' # received
            /\ isUC'["judge"] = isUC["judge"]
        /\ (received' # received \/ handlerPc' # handlerPc) => memory' = memory
        /\ (taskPc' # taskPc /\ received' = received) => isUC' = isUC
      ]_vars

\* C18's case: both lawyers' turns have written their histories and the
\* handler has changed the flags, a set_role for the judge among its reads.
C18_Witness ==
    /\ memory["prosecutor"] # <<>>
    /\ memory["defense_lawyer"] # <<>>
    /\ memory["judge"] = <<>>
    /\ \E i \in 1..Len(received) : received[i] = SetRoleMsg("judge")
    /\ isUC["defense_lawyer"]

\* The texts the handler has put on the queue, in the order it read them.
TextsPut ==
    LET ui == SelectSeq(received, LAMBDA m : IsUserInput(m) /\ "message" \in m.keys)
    IN [i \in 1..Len(ui) |-> ui[i].message]

WaitsForInput == taskPc = "await_input" /\ queue = <<>>

\* trial_finished is out.
ReachedTrialFinished == taskPc \in {"sent_trial_finished", "finished"}

\* C20: under weak fairness of the session task, (1) a session whose client
\* has disconnected reaches trial_finished or is cancelled, (2) a suspended
\* turn goes on once a text is queued, (3) a session whose lawyers stay
\* autonomous and whose client stays connected reaches trial_finished, and
\* (4) a session that has started reaches trial_finished, is cancelled, or
\* waits for human input: it waits nowhere else for ever.
C20_SessionTerminates ==
    /\ (taskPc # "none" /\ connection = "closed")
          ~> (ReachedTrialFinished \/ taskPc = "cancelled")
    /\ (taskPc = "await_input" /\ queue # <<>>) ~> (taskPc # "await_input")
    /\ (taskPc = "created")
          ~> (ReachedTrialFinished \/ ~StayedAutonomous \/ connection # "open")
    /\ (taskPc = "created")
          ~> (ReachedTrialFinished \/ taskPc = "cancelled" \/ WaitsForInput)

\* What holds of C20 in the code: the same four, with a task ended by an
\* exception of send() counted among the ended ones, and with the handler
\* still in its loop as part of "the client stays connected".
SessionEndsOrWaitsForInput ==
    /\ (taskPc # "none" /\ connection = "closed")
          ~> (taskPc \in {"finished", "cancelled", "failed"})
    /\ (taskPc = "await_input" /\ queue # <<>>) ~> (taskPc # "await_input")
    /\ (taskPc = "created")
          ~> (taskPc = "finished" \/ ~StayedAutonomous \/ connection # "open"
                \/ handlerPc # "reading")
    /\ (taskPc = "created")
          ~> (taskPc \in {"finished", "cancelled", "failed"} \/ WaitsForInput)
====
